---- MODULE Spec2Model ----
(***************************************************************************)
(* A model of src/main.py: the per-block handler exec_block of the         *)
(* Marginal v1 liquidity monitor, the close check handle_position_close    *)
(* it calls for Settle and Liquidate events, and the message filter        *)
(* attempt_send_message.  The chain (pool state of the prior block, the    *)
(* logs of the block) and the process configuration (logger level,         *)
(* telegram bot) are the environment.                                      *)
(*                                                                         *)
(* Spec and SpecAnyShape run one invocation of exec_block for one block,   *)
(* SpecAnyOrder one whose logs are retrieved in any order, SpecTwice two   *)
(* invocations for the same block one after the other, SpecConcurrent two  *)
(* interleaved invocations for consecutive blocks.                         *)
(***************************************************************************)
EXTENDS Integers, Sequences, FiniteSets, TLC

\* ------------------------------------------------------------------ bounds
\* The largest number of pool events in the block.
MaxEvents == 2
\* The largest liquidity amount in a payload or in the pool state: liquidity
\* values are 0..MaxLiquidity, deltas are 1..MaxLiquidity.
MaxLiquidity == 1

\* --------------------------------------------------------------- constants
\* ape.logging.LogLevel, an IntEnum over the levels of Python's logging
\* (SUCCESS is logging.INFO + 1): a higher number is the more important.
LogLevel_ERROR == 40
LogLevel_WARNING == 30
LogLevel_SUCCESS == 21
LogLevel_INFO == 20
LogLevel_DEBUG == 10
\* The levels the process-wide logger can be set to.
LogLevels ==
    {LogLevel_ERROR, LogLevel_WARNING, LogLevel_SUCCESS, LogLevel_INFO, LogLevel_DEBUG}

\* The block the first invocation of exec_block is for.
BlockNumber == 100

\* The six event types of the pool, in the order exec_block queries them.
EventTypes == <<"Open", "Settle", "Liquidate", "Swap", "Mint", "Burn">>
EventNames == {EventTypes[k] : k \in 1..Len(EventTypes)}

\* ------------------------------------------------------------ environment
Amounts == 0..MaxLiquidity
Deltas == 1..MaxLiquidity
\* Position owners (addresses, as the integers they encode) and position ids.
Owners == {1}
Ids == {7}

\* keccak(encode_packed(["address", "uint96"], [address, id])): the tight
\* packing is the 20 bytes of the address followed by the 12 bytes of the id,
\* a pair of fixed-width fields; keccak is taken to be collision free, so a
\* key is the tagged packed pair.
encode_packed(address, id) == <<address, id>>
get_position_key(address, id) == <<"keccak", encode_packed(address, id)>>

PositionKeys == {get_position_key(a, i) : a \in Owners, i \in Ids}

\* The three payload fields exec_block reads the liquidity from, and the
\* values each can hold.
LiquidityKeys == {"liquidityAfter", "liquidity", "liquidityDelta"}
FieldValues(key) == IF key = "liquidityDelta" THEN Deltas ELSE Amounts
\* The payloads that carry exactly the liquidity fields keys.
Fields(keys) ==
    {f \in [keys -> Amounts \cup Deltas] : \A k \in keys : f[k] \in FieldValues(k)}

\* The other fields of a payload: the position of a Settle or Liquidate
\* (lines 144-145), the sender otherwise.
BaseArgs(name) ==
    IF name \in {"Settle", "Liquidate"}
    THEN {[owner |-> a, id |-> i] : a \in Owners, i \in Ids}
    ELSE {[sender |-> 0]}

\* The field the pool's ABI gives each event: liquidityAfter (Open, Settle,
\* Liquidate), liquidity (Swap), liquidityDelta (Mint, Burn).
AbiKeys(name) ==
    CASE name \in {"Open", "Settle", "Liquidate"} -> {"liquidityAfter"}
      [] name = "Swap" -> {"liquidity"}
      [] OTHER -> {"liquidityDelta"}

\* The payloads of event name that carry one of the sets of liquidity fields
\* in keysets.
ArgsWith(name, keysets) ==
    {b @@ f : b \in BaseArgs(name), f \in UNION {Fields(keys) : keys \in keysets}}

\* Decoded events, before their place in the block is known: those of the
\* pool's ABI, those with none of the three liquidity fields, and those with
\* any of them.
EventsWith(shapes) ==
    UNION {{[event_name |-> n, event_arguments |-> args] :
                args \in ArgsWith(n, shapes[n])} : n \in EventNames}
AbiShape == [n \in EventNames |-> {AbiKeys(n)}]
AbiOrBareShape == [n \in EventNames |-> {AbiKeys(n), {}}]
AnyShape == [n \in EventNames |-> SUBSET LiquidityKeys]
AbiDecoded == EventsWith(AbiShape)
Decoded == EventsWith(AbiOrBareShape)
AnyDecoded == EventsWith(AnyShape)

\* The k-th log of the block in execution order: logs are numbered through the
\* block, two to a transaction.
LogAt(k, ev) ==
    [event_name |-> ev.event_name, event_arguments |-> ev.event_arguments,
     transaction_index |-> (k - 1) \div 2, log_index |-> k - 1]

\* The blocks the chain can hold: up to MaxEvents logs in execution order.
Blocks ==
    UNION {{[k \in 1..n |-> LogAt(k, evs[k])] : evs \in [1..n -> Decoded]} :
                n \in 0..MaxEvents}

\* Blocks whose last log has a payload of any shape: that log alone, or after
\* one log of the pool's ABI.
AnyShapeBlocks ==
    {<<LogAt(1, ev)>> : ev \in AnyDecoded}
        \cup {<<LogAt(1, first), LogAt(2, ev)>> :
                    first \in AbiDecoded, ev \in AnyDecoded}

\* A smaller chain: blocks of Settle and Mint events (an event that sets the
\* counter and is checked, and one that moves the counter by a delta), of the
\* pool's ABI or bare.
SmallNames == {"Settle", "Mint"}
SmallDecoded == {ev \in Decoded : ev.event_name \in SmallNames}
SmallBlocks ==
    UNION {{[k \in 1..n |-> LogAt(k, evs[k])] : evs \in [1..n -> SmallDecoded]} :
                n \in 0..MaxEvents}

\* The same logs as the node's index returns them: every order of every small
\* block.  Each of the six queries hands back its type's logs in the order of
\* the index.
Shuffle(logs) ==
    {[k \in 1..Len(logs) |-> logs[p[k]]] : p \in Permutations(1..Len(logs))}
ShuffledBlocks == UNION {Shuffle(logs) : logs \in SmallBlocks}

\* Blocks for two invocations at a time: no log, one log of the smaller chain,
\* or two logs the first of which is a Mint of the pool's ABI.
ConcurrentBlocks ==
    {<<>>} \cup {<<LogAt(1, ev)>> : ev \in SmallDecoded}
        \cup {<<LogAt(1, first), LogAt(2, ev)>> :
                first \in {m \in AbiDecoded : m.event_name = "Mint"},
                ev \in SmallDecoded}

\* --------------------------------------------------------------- the state
\* The chain answers each query when it is made: block_logs and positions hold
\* the answers given so far, and a position asked for twice answers the same.
VARIABLES
    \* the environment
    prior_liquidity,   \* pool.state(block - 1).liquidity
    block_logs,        \* the pool's logs in the block, as the node returns them
    positions,         \* <<position key, block>> -> liquidityLocked of the
                       \* position at the end of the block, as far as asked for
    logger_level,      \* logger.level
    bot,               \* TRUE iff TELEGRAM_BOT_TOKEN is set (bot is not None)
    \* exec_block
    pc,                \* where the invocation stands
    liquidity,         \* the running counter
    liquidity_before,  \* the liquidity at the start of the block
    liquidity_after,   \* <<>> while unbound, <<v>> once assigned
    df,                \* the sorted frame of events
    idx,               \* rows of df the loop has finished
    counts,            \* events per type
    returned,          \* <<>>, or <<counts>> once exec_block has returned
    error,             \* the exception that left exec_block, "none" if none
    \* what the invocation has done
    log,               \* the messages logged by lines 87 and 162
    sent,              \* the messages handed to bot.send_message that went out
    trace,             \* per finished row: the counter before and after it
    checks,            \* per call of handle_position_close whose position
                       \* query was answered: its arguments and its outcome
    \* the process
    block_count,       \* state.block_count of the worker
    block,             \* block.number of the invocation that is running
    parked             \* the frames of the invocations that are not running

vars == <<prior_liquidity, block_logs, positions, logger_level, bot,
          pc, liquidity, liquidity_before, liquidity_after, df, idx, counts,
          returned, error, log, sent, trace, checks, block_count,
          block, parked>>

\* ------------------------------------------------------------ pure helpers
Unbound == <<>>
Bound(v) == <<v>>

\* ev.query("*", start_block=block.number, stop_block=block.number): the logs
\* of one event type in the block.
Query(name, logs) == SelectSeq(logs, LAMBDA e : e.event_name = name)

\* pd.concat(queries): the six query results one after the other.
RECURSIVE Concat(_, _)
Concat(k, logs) ==
    IF k > Len(EventTypes) THEN <<>>
    ELSE Query(EventTypes[k], logs) \o Concat(k + 1, logs)

\* The row order of df.sort_values(["transaction_index", "log_index"]).
RowBefore(a, b) ==
    \/ a.transaction_index < b.transaction_index
    \/ /\ a.transaction_index = b.transaction_index
       /\ a.log_index < b.log_index

\* Insert row r into the sorted frame s.
RECURSIVE Insert(_, _)
Insert(r, s) ==
    IF s = <<>> THEN <<r>>
    ELSE IF RowBefore(r, Head(s)) THEN <<r>> \o s
    ELSE <<Head(s)>> \o Insert(r, Tail(s))

\* sort_values that leaves the frame as pd.concat made it (line 119 lost).
sort_values_Unsorted(s) == s

RECURSIVE sort_values(_)
sort_values(s) ==
    IF s = <<>> THEN <<>> ELSE Insert(Head(s), sort_values(Tail(s)))

\* The counts dictionary of line 125.
ZeroCounts == [n \in EventNames |-> 0]

Has(ev_args, key) == key \in DOMAIN ev_args

\* LiquidityAfterOf with the sign of line 137 lost: a Burn adds its delta.
LiquidityAfterOf_Unsigned(row, cur, prev) ==
    LET ev_args == row.event_arguments IN
    IF Has(ev_args, "liquidityAfter") THEN Bound(ev_args.liquidityAfter)
    ELSE IF Has(ev_args, "liquidity") THEN Bound(ev_args.liquidity)
    ELSE IF Has(ev_args, "liquidityDelta")
         THEN Bound(cur + ev_args.liquidityDelta)
    ELSE prev

\* LiquidityAfterOf with the tests of lines 129 and 132 in the other order.
LiquidityAfterOf_SwapFirst(row, cur, prev) ==
    LET ev_args == row.event_arguments IN
    IF Has(ev_args, "liquidity") THEN Bound(ev_args.liquidity)
    ELSE IF Has(ev_args, "liquidityAfter") THEN Bound(ev_args.liquidityAfter)
    ELSE IF Has(ev_args, "liquidityDelta")
         THEN LET sign == IF row.event_name = "Mint" THEN 1 ELSE -1
              IN  Bound(cur + sign * ev_args.liquidityDelta)
    ELSE prev

\* Lines 128-138: the value of the local liquidity_after once the row's
\* payload has been looked at.  cur is the running counter (the local
\* liquidity), prev the local liquidity_after as the previous iteration left
\* it: no branch assigns when the payload has none of the three fields.
LiquidityAfterOf(row, cur, prev) ==
    LET ev_args == row.event_arguments IN
    IF Has(ev_args, "liquidityAfter") THEN Bound(ev_args.liquidityAfter)
    ELSE IF Has(ev_args, "liquidity") THEN Bound(ev_args.liquidity)
    ELSE IF Has(ev_args, "liquidityDelta")
         THEN LET sign == IF row.event_name = "Mint" THEN 1 ELSE -1
              IN  Bound(cur + sign * ev_args.liquidityDelta)
    ELSE prev

\* IsClose that knows Settle only: a Liquidate is replayed without its check.
IsClose_SettleOnly(row) == row.event_name = "Settle"

\* Line 140.
IsClose(row) == row.event_name = "Settle" \/ row.event_name = "Liquidate"

\* Line 76.
LiquidityReturned(before, after) == after - before

\* The condition of lines 83, 86 and 92.
LostLiquidity(liq_returned, liquidityLocked) == liq_returned < liquidityLocked

\* Lines 81-85: the f-string of the branch taken.  The quotient
\* liquidity_returned / position.liquidityLocked is kept as the pair of its
\* operands; both branches divide, so the caller raises ZeroDivisionError
\* when liquidityLocked is 0.
CloseMsg(block_number, event_name, position_id, liq_returned, liquidityLocked) ==
    [marker |-> IF LostLiquidity(liq_returned, liquidityLocked)
                THEN "urgent" ELSE "success",
     event_name |-> event_name, position_id |-> position_id,
     block_number |-> block_number,
     ratio |-> <<liq_returned, liquidityLocked>>]

\* Line 86.
CloseMethod(liq_returned, liquidityLocked) ==
    IF LostLiquidity(liq_returned, liquidityLocked) THEN "error" ELSE "success"

\* CloseLevel with the two levels the other way round.
CloseLevel_Swapped(liq_returned, liquidityLocked) ==
    IF LostLiquidity(liq_returned, liquidityLocked)
    THEN LogLevel_SUCCESS ELSE LogLevel_ERROR

\* Lines 90-94.
CloseLevel(liq_returned, liquidityLocked) ==
    IF LostLiquidity(liq_returned, liquidityLocked)
    THEN LogLevel_ERROR ELSE LogLevel_SUCCESS

\* Filtered with the comparison the other way round (the reading of the
\* docstring of line 51): a message below the logger's level goes out.
Filtered_Inverted(has_bot, threshold, level) == ~has_bot \/ threshold < level

\* Filtered without the test of bot: only the level holds a message back.
Filtered_NoBotTest(has_bot, threshold, level) == threshold > level

\* Line 53: attempt_send_message returns without sending when this holds.
Filtered(has_bot, threshold, level) == ~has_bot \/ threshold > level

\* SummaryMsg that counts the Settle events only as closed.
SummaryMsg_ClosedSettleOnly(block_number, start, end, cnt) ==
    [marker |-> "block", block_number |-> block_number,
     liquidity_start |-> start, liquidity_end |-> end,
     liquidity_delta |-> end - start,
     opened |-> cnt["Open"], closed |-> cnt["Settle"],
     swaps |-> cnt["Swap"], adds |-> cnt["Mint"], removes |-> cnt["Burn"]]

\* Line 161: the summary of the block.
SummaryMsg(block_number, start, end, cnt) ==
    [marker |-> "block", block_number |-> block_number,
     liquidity_start |-> start, liquidity_end |-> end,
     liquidity_delta |-> end - start,
     opened |-> cnt["Open"], closed |-> cnt["Settle"] + cnt["Liquidate"],
     swaps |-> cnt["Swap"], adds |-> cnt["Mint"], removes |-> cnt["Burn"]]

\* ------------------------------------------------------------------- Init
\* The worker has started (line 41) and the invocation has not; its locals
\* hold nothing yet (liquidity and liquidity_before are written by lines 106
\* and 126 before any read).
Init ==
    /\ prior_liquidity \in Amounts
    /\ block_logs = <<>>
    /\ positions = <<>>
    /\ logger_level \in LogLevels
    /\ bot \in BOOLEAN
    /\ pc = "state_query"
    /\ liquidity = 0
    /\ liquidity_before = 0
    /\ liquidity_after = Unbound
    /\ df = <<>>
    /\ idx = 0
    /\ counts = ZeroCounts
    /\ returned = <<>>
    /\ error = "none"
    /\ log = <<>>
    /\ sent = <<>>
    /\ trace = <<>>
    /\ checks = <<>>
    /\ block_count = 0
    /\ block = BlockNumber
    /\ parked = <<>>

\* ---------------------------------------------------------------- actions
\* An exception nothing in exec_block catches: it leaves the coroutine.
Raise(exc) ==
    /\ pc' = "failed"
    /\ error' = exc

\* The row the loop of line 127 is at.
Row == df[idx + 1]
InLoop == pc = "replay" /\ idx < Len(df)
\* LoopDone without the loop's end: the summary code runs inside the loop.
LoopDone_Early == pc = "replay"
\* The for loop of line 127 has run out of rows.
LoopDone == pc = "replay" /\ idx = Len(df)

\* Line 106: the pool's liquidity at the end of the prior block.
StateQuery ==
    /\ pc = "state_query"
    /\ liquidity' = prior_liquidity
    /\ pc' = "events_query"
    /\ UNCHANGED <<prior_liquidity, block_logs, positions, logger_level, bot,
                   liquidity_before, liquidity_after, df, idx, counts,
                   returned, error, log, sent, trace, checks,
                   block_count, block, parked>>

\* Line 106: the eth_call fails.
StateQueryFails ==
    /\ pc = "state_query"
    /\ Raise("state_query")
    /\ UNCHANGED <<prior_liquidity, block_logs, positions, logger_level, bot,
                   liquidity, liquidity_before, liquidity_after, df, idx,
                   counts, returned, log, sent, trace, checks,
                   block_count, block, parked>>

\* Lines 112-126: the six log queries, concatenated and sorted; the counts
\* and the start liquidity are set.
EventsQueryOf(blocks) ==
    /\ pc = "events_query"
    /\ \E logs \in blocks :
        /\ block_logs' = logs
        /\ df' = sort_values(Concat(1, logs))
    /\ counts' = ZeroCounts
    /\ liquidity_before' = liquidity
    /\ idx' = 0
    /\ pc' = "replay"
    /\ UNCHANGED <<prior_liquidity, positions, logger_level, bot, liquidity,
                   liquidity_after, returned, error, log, sent, trace, checks,
                   block_count, block, parked>>

\* The events query on a chain of ABI-shaped and bare payloads, and on one
\* whose payloads have any shape.
EventsQuery == EventsQueryOf(Blocks)
EventsQueryAnyShape == EventsQueryOf(AnyShapeBlocks)

\* Lines 114-117: a log query fails.
EventsQueryFails ==
    /\ pc = "events_query"
    /\ Raise("events_query")
    /\ UNCHANGED <<prior_liquidity, block_logs, positions, logger_level, bot,
                   liquidity, liquidity_before, liquidity_after, df, idx,
                   counts, returned, log, sent, trace, checks,
                   block_count, block, parked>>

\* FinishRow without line 154: the counter keeps its value.
FinishRow_StaleCounter(la) ==
    /\ liquidity_after' = la
    /\ counts' = [counts EXCEPT ![Row.event_name] = @ + 1]
    /\ liquidity' = liquidity
    /\ idx' = idx + 1
    /\ trace' = Append(trace, [before |-> liquidity, after |-> la[1]])

\* Lines 150-154 once the row's liquidity_after la is bound: count the event
\* and move the counter.
FinishRow(la) ==
    /\ liquidity_after' = la
    /\ counts' = [counts EXCEPT ![Row.event_name] = @ + 1]
    /\ liquidity' = la[1]
    /\ idx' = idx + 1
    /\ trace' = Append(trace, [before |-> liquidity, after |-> la[1]])

\* Lines 128-154 for an event that closes no position.
ReplayEvent ==
    /\ InLoop
    /\ ~IsClose(Row)
    /\ LET la == LiquidityAfterOf(Row, liquidity, liquidity_after) IN
        /\ la # Unbound
        /\ FinishRow(la)
    /\ UNCHANGED <<prior_liquidity, block_logs, positions, logger_level, bot,
                   pc, liquidity_before, df, returned, error, log, sent,
                   checks,
                   block_count, block, parked>>

\* Lines 128-154 when no branch has ever assigned liquidity_after: reading it
\* raises UnboundLocalError, at line 147 for a closing event and at line 154
\* (after the count of line 151) for any other.
ReplayUnbound ==
    /\ InLoop
    /\ LiquidityAfterOf(Row, liquidity, liquidity_after) = Unbound
    /\ counts' = IF IsClose(Row) THEN counts
                 ELSE [counts EXCEPT ![Row.event_name] = @ + 1]
    /\ Raise("UnboundLocalError")
    /\ UNCHANGED <<prior_liquidity, block_logs, positions, logger_level, bot,
                   liquidity, liquidity_before, liquidity_after, df, idx,
                   returned, log, sent, trace, checks,
                   block_count, block, parked>>

\* handle_position_close is entered for the row at hand: a Settle or a
\* Liquidate whose liquidity_after is bound (lines 140-148).
AtClose ==
    /\ InLoop
    /\ IsClose(Row)
    /\ LiquidityAfterOf(Row, liquidity, liquidity_after) # Unbound

\* LockedAnswers without the block_identifier of line 75: the position is
\* read at the head of the chain, which moves from one query to the next.
LockedAnswers_AtHead == Amounts

\* PositionBlock without the - 1 of line 75: the position is read as the
\* block at hand left it.
PositionBlock_Current == block

\* Line 75: the block_identifier of the position query.
PositionBlock == block - 1

\* Lines 74-75: the key of the row's position, the query made for it, and
\* what pool.positions(k, block_identifier=block_number - 1).liquidityLocked
\* can be: the chain's state at the end of a block is fixed, so a query it
\* has answered is answered the same again.
RowKey == get_position_key(Row.event_arguments.owner, Row.event_arguments.id)
PositionQuery == <<RowKey, PositionBlock>>
LockedAnswers ==
    IF PositionQuery \in DOMAIN positions
    THEN {positions[PositionQuery]} ELSE Amounts
Answered(locked) == positions' = (PositionQuery :> locked) @@ positions

\* Line 76 for the row at hand.
RowReturned ==
    LiquidityReturned(liquidity,
                      LiquidityAfterOf(Row, liquidity, liquidity_after)[1])
\* Lines 81-87: the call of the logger.
CloseLog(locked) ==
    [method |-> CloseMethod(RowReturned, locked),
     msg |-> CloseMsg(block, Row.event_name, Row.event_arguments.id,
                      RowReturned, locked)]
\* Lines 90-95: the call of attempt_send_message.
CloseSend(locked) ==
    [level |-> CloseLevel(RowReturned, locked), msg |-> CloseLog(locked).msg]
\* The call of lines 141-148 and how it ended: the method of line 87, or
\* "raised" when the f-string of lines 81-85 raised.
Checked(locked, outcome) ==
    checks' = Append(checks,
        [row |-> idx + 1, event_name |-> Row.event_name,
         liquidity_before |-> liquidity,
         liquidity_after |-> LiquidityAfterOf(Row, liquidity, liquidity_after)[1],
         liquidityLocked |-> locked, outcome |-> outcome])

\* Lines 128-154 for a Settle or Liquidate: handle_position_close runs to its
\* end (the message is logged, and sent unless filtered), then the row is
\* counted and the counter moved.
ReplayClose ==
    /\ AtClose
    /\ \E locked \in LockedAnswers :
        /\ locked # 0
        /\ Answered(locked)
        /\ Checked(locked, CloseLog(locked).method)
        /\ log' = Append(log, CloseLog(locked))
        /\ sent' = IF Filtered(bot, logger_level, CloseSend(locked).level)
                   THEN sent ELSE Append(sent, CloseSend(locked))
    /\ FinishRow(LiquidityAfterOf(Row, liquidity, liquidity_after))
    /\ UNCHANGED <<prior_liquidity, block_logs, logger_level, bot, pc,
                   liquidity_before, df, returned, error,
                   block_count, block, parked>>

\* Line 75: the position query fails.
ClosePositionQueryFails ==
    /\ AtClose
    /\ Raise("position_query")
    /\ UNCHANGED <<prior_liquidity, block_logs, positions, logger_level, bot,
                   liquidity, liquidity_before, liquidity_after, df, idx,
                   counts, returned, log, sent, trace, checks,
                   block_count, block, parked>>

\* Lines 81-85: the f-string divides by position.liquidityLocked, which is 0.
CloseZeroDivision ==
    /\ AtClose
    /\ 0 \in LockedAnswers
    /\ Answered(0)
    /\ Checked(0, "raised")
    /\ Raise("ZeroDivisionError")
    /\ UNCHANGED <<prior_liquidity, block_logs, logger_level, bot,
                   liquidity, liquidity_before, liquidity_after, df, idx,
                   counts, returned, log, sent, trace,
                   block_count, block, parked>>

\* Line 55 under line 95: bot.send_message raises; the message was logged.
CloseSendFails ==
    /\ AtClose
    /\ \E locked \in LockedAnswers :
        /\ locked # 0
        /\ Answered(locked)
        /\ ~Filtered(bot, logger_level, CloseSend(locked).level)
        /\ Checked(locked, CloseLog(locked).method)
        /\ log' = Append(log, CloseLog(locked))
    /\ Raise("send_message")
    /\ UNCHANGED <<prior_liquidity, block_logs, logger_level, bot,
                   liquidity, liquidity_before, liquidity_after, df, idx,
                   counts, returned, sent, trace,
                   block_count, block, parked>>

\* The summary of lines 156-162.
SummaryLog ==
    [method |-> "info",
     msg |-> SummaryMsg(block, liquidity_before, liquidity, counts)]
SummarySend == [level |-> LogLevel_INFO, msg |-> SummaryLog.msg]

\* Summarize without the return of line 164: the code after the loop can run
\* again.
Summarize_Repeats ==
    /\ LoopDone
    /\ log' = Append(log, SummaryLog)
    /\ sent' = IF Filtered(bot, logger_level, SummarySend.level)
               THEN sent ELSE Append(sent, SummarySend)
    /\ returned' = <<counts>>
    /\ pc' = pc
    /\ UNCHANGED <<prior_liquidity, block_logs, positions, logger_level, bot,
                   liquidity, liquidity_before, liquidity_after, df, idx,
                   counts, error, trace, checks,
                   block_count, block, parked>>

\* Lines 156-164: the summary is logged, sent unless filtered, and the counts
\* are returned.
Summarize ==
    /\ LoopDone
    /\ log' = Append(log, SummaryLog)
    /\ sent' = IF Filtered(bot, logger_level, SummarySend.level)
               THEN sent ELSE Append(sent, SummarySend)
    /\ returned' = <<counts>>
    /\ pc' = "done"
    /\ UNCHANGED <<prior_liquidity, block_logs, positions, logger_level, bot,
                   liquidity, liquidity_before, liquidity_after, df, idx,
                   counts, error, trace, checks,
                   block_count, block, parked>>

\* Line 55 under line 163: bot.send_message raises; the summary was logged.
SummarizeSendFails ==
    /\ LoopDone
    /\ ~Filtered(bot, logger_level, SummarySend.level)
    /\ log' = Append(log, SummaryLog)
    /\ Raise("send_message")
    /\ UNCHANGED <<prior_liquidity, block_logs, positions, logger_level, bot,
                   liquidity, liquidity_before, liquidity_after, df, idx,
                   counts, returned, sent, trace, checks,
                   block_count, block, parked>>

\* Every step of exec_block but the events query.
Step ==
    \/ StateQuery
    \/ StateQueryFails
    \/ EventsQueryFails
    \/ ReplayEvent
    \/ ReplayUnbound
    \/ ReplayClose
    \/ ClosePositionQueryFails
    \/ CloseZeroDivision
    \/ CloseSendFails
    \/ Summarize
    \/ SummarizeSendFails

Next == EventsQuery \/ Step

Spec == Init /\ [][Next]_vars

\* exec_block on a block whose payloads have any shape.
NextAnyShape == EventsQueryAnyShape \/ Step

SpecAnyShape == Init /\ [][NextAnyShape]_vars

\* The events query on a node that returns the logs of a type in any order.
EventsQueryAnyOrder == EventsQueryOf(ShuffledBlocks)

\* exec_block on a block whose logs are retrieved in any order.
NextAnyOrder == EventsQueryAnyOrder \/ Step

SpecAnyOrder == Init /\ [][NextAnyOrder]_vars

\* ----------------------------------------------------------- invocations
\* The frame of the running invocation: the block it is for, what the chain
\* has answered it, its locals and what it has done.  exec_block keeps
\* everything it computes in locals (lines 106-161); logger and bot are the
\* process's.
Frame ==
    [block |-> block, prior_liquidity |-> prior_liquidity,
     block_logs |-> block_logs, positions |-> positions,
     pc |-> pc, liquidity |-> liquidity, liquidity_before |-> liquidity_before,
     liquidity_after |-> liquidity_after, df |-> df, idx |-> idx,
     counts |-> counts, returned |-> returned, error |-> error,
     log |-> log, sent |-> sent, trace |-> trace, checks |-> checks]

\* The invocation has ended: it returned or an exception left it.
Ended == pc \in {"done", "failed"}

\* Line 102: a call of exec_block starts with no local bound.
FreshLocals ==
    /\ pc' = "state_query"
    /\ liquidity' = 0
    /\ liquidity_before' = 0
    /\ liquidity_after' = Unbound
    /\ df' = <<>>
    /\ idx' = 0
    /\ counts' = ZeroCounts
    /\ returned' = <<>>
    /\ error' = "none"
    /\ log' = <<>>
    /\ sent' = <<>>
    /\ trace' = <<>>
    /\ checks' = <<>>

\* exec_block is invoked a second time for the same block, once the first
\* invocation has ended: the chain is the same, so its answers are.
InvokeAgain ==
    /\ Ended
    /\ parked = <<>>
    /\ parked' = <<Frame>>
    /\ FreshLocals
    /\ UNCHANGED <<prior_liquidity, block_logs, positions, logger_level, bot,
                   block_count, block>>

\* The first invocation got its events query answered.
LogsAnswered ==
    /\ parked # <<>>
    /\ parked[1].error \notin {"state_query", "events_query"}

\* The events query of a first and of a second invocation for the block.
EventsQueryTwice ==
    EventsQueryOf(IF LogsAnswered THEN {block_logs} ELSE SmallBlocks)

\* exec_block run twice for one block of the smaller chain.
NextTwice == EventsQueryTwice \/ InvokeAgain \/ Step

SpecTwice == Init /\ [][NextTwice]_vars

\* Load with the counter at module level: the running counter is the one
\* the invocation that ran last left (an in-memory carry-over).
Load_SharedCounter(f) ==
    /\ block' = f.block
    /\ prior_liquidity' = f.prior_liquidity
    /\ block_logs' = f.block_logs
    /\ positions' = f.positions
    /\ pc' = f.pc
    /\ liquidity' = liquidity
    /\ liquidity_before' = f.liquidity_before
    /\ liquidity_after' = f.liquidity_after
    /\ df' = f.df
    /\ idx' = f.idx
    /\ counts' = f.counts
    /\ returned' = f.returned
    /\ error' = f.error
    /\ log' = f.log
    /\ sent' = f.sent
    /\ trace' = f.trace
    /\ checks' = f.checks

\* The coroutine of frame f is resumed: its locals are the ones it left.
Load(f) ==
    /\ block' = f.block
    /\ prior_liquidity' = f.prior_liquidity
    /\ block_logs' = f.block_logs
    /\ positions' = f.positions
    /\ pc' = f.pc
    /\ liquidity' = f.liquidity
    /\ liquidity_before' = f.liquidity_before
    /\ liquidity_after' = f.liquidity_after
    /\ df' = f.df
    /\ idx' = f.idx
    /\ counts' = f.counts
    /\ returned' = f.returned
    /\ error' = f.error
    /\ log' = f.log
    /\ sent' = f.sent
    /\ trace' = f.trace
    /\ checks' = f.checks

\* The next block arrives while the invocation for BlockNumber is anywhere
\* on its way: exec_block is invoked for it with locals of its own; the chain
\* has a state and logs of its own for that block.
InvokeNext ==
    /\ parked = <<>>
    /\ block = BlockNumber
    /\ parked' = <<Frame>>
    /\ block' = block + 1
    /\ prior_liquidity' \in Amounts
    /\ block_logs' = <<>>
    /\ positions' = <<>>
    /\ FreshLocals
    /\ UNCHANGED <<logger_level, bot, block_count>>

\* The running invocation is suspended, or has ended, and the other one is
\* resumed.
Switch ==
    /\ parked # <<>>
    /\ parked' = <<Frame>>
    /\ Load(parked[1])
    /\ UNCHANGED <<logger_level, bot, block_count>>

EventsQueryConcurrent == EventsQueryOf(ConcurrentBlocks)

\* Two invocations of exec_block for consecutive blocks, interleaved at every
\* step, under a logger at DEBUG (which messages go out is then up to bot).
InitConcurrent == Init /\ logger_level = LogLevel_DEBUG

NextConcurrent == EventsQueryConcurrent \/ InvokeNext \/ Switch \/ Step

SpecConcurrent == InitConcurrent /\ [][NextConcurrent]_vars

\* ----------------------------------------------------------------- claims
\* The payload has one of the three shapes of lines 129-135.
HasShape(row) ==
    \/ Has(row.event_arguments, "liquidityAfter")
    \/ Has(row.event_arguments, "liquidity")
    \/ Has(row.event_arguments, "liquidityDelta")

\* A summary of the block has been logged, sent or returned.
IsSummary(m) == m.marker = "block"
SummaryLogged == \E k \in 1..Len(log) : IsSummary(log[k].msg)
SummarySent == \E k \in 1..Len(sent) : IsSummary(sent[k].msg)
SummaryEmitted == SummaryLogged \/ SummarySent \/ returned # <<>>

\* C1: an event whose payload has none of the fields liquidityAfter,
\* liquidity, liquidityDelta stops the replay at that event, wherever it
\* stands in the block: the loop never finishes such a row, and no summary is
\* emitted for a block that holds one.
C1_MalformedFailsFast ==
    \A k \in 1..Len(df) :
        ~HasShape(df[k]) => (idx < k /\ ~SummaryEmitted)

\* C2: the ratio computation never raises: handle_position_close never ends
\* in a ZeroDivisionError, and a position with liquidityLocked = 0 and a
\* non-negative liquidity_returned is reported as a pass.
C2_ZeroLockedNeverRaises ==
    /\ error # "ZeroDivisionError"
    /\ \A k \in 1..Len(checks) :
        (/\ checks[k].liquidityLocked = 0
         /\ checks[k].liquidity_after - checks[k].liquidity_before >= 0)
            => checks[k].outcome = "success"

\* C3: every Settle/Liquidate check reports exactly one outcome: breach (the
\* error method) iff liquidity_after - liquidity_before < liquidityLocked,
\* pass (the success method) otherwise.
C3_ExactlyOneOutcome ==
    \A k \in 1..Len(checks) :
        LET c == checks[k] IN
        c.outcome = IF c.liquidity_after - c.liquidity_before < c.liquidityLocked
                    THEN "error" ELSE "success"

C5_SendFailureDoesNotAbort ==
    ~(pc = "failed" /\ error = "send_message")

\* C6: a breach does not stop the pipeline: the row of every check that was
\* classified as a breach is finished, so the loop goes on to the events
\* after it and to the summary.
C6_BreachDoesNotStop ==
    \A k \in 1..Len(checks) :
        checks[k].outcome = "error" => checks[k].row <= idx

\* C7: when the state query, the events query or a position query fails, no
\* summary of the block is logged, sent or returned; a summary is emitted
\* only once every event of the block has been replayed.
C7_NoSummaryOfIncompleteReplay ==
    /\ error \in {"state_query", "events_query", "position_query"}
            => ~SummaryEmitted
    /\ SummaryEmitted =>
            /\ idx = Len(df)
            /\ Len(df) = Len(block_logs)
            /\ Len(trace) = Len(block_logs)

\* C7's case: a position query failed after an event of the block had been
\* replayed, and nothing was emitted.
C7_Witness ==
    /\ pc = "failed"
    /\ error = "position_query"
    /\ idx = 1
    /\ Len(df) = 2
    /\ ~SummaryEmitted

\* The running counter before row k: what the row before it produced, or the
\* prior block's liquidity for the first row.
CounterBefore(k) == IF k = 1 THEN prior_liquidity ELSE trace[k - 1].after

\* C8: a Mint with delta d leaves the counter before it plus d, a Burn the
\* counter before it minus d, at every place in the block.
C8_MintBurnDelta ==
    \A k \in 1..Len(trace) :
        LET row == df[k] IN
        Has(row.event_arguments, "liquidityDelta") =>
            /\ row.event_name = "Mint" =>
                trace[k].after = CounterBefore(k) + row.event_arguments.liquidityDelta
            /\ row.event_name = "Burn" =>
                trace[k].after = CounterBefore(k) - row.event_arguments.liquidityDelta

\* C8's case: a Mint, then a Burn that starts from the counter the Mint left.
C8_Witness ==
    /\ Len(trace) = 2
    /\ df[1].event_name = "Mint"
    /\ df[2].event_name = "Burn"
    /\ Has(df[1].event_arguments, "liquidityDelta")
    /\ Has(df[2].event_arguments, "liquidityDelta")
    /\ trace[1].after # prior_liquidity
    /\ trace[2].after = prior_liquidity

\* C9: a payload with liquidityAfter sets the counter to exactly that value
\* and, failing that, a payload with liquidity to exactly that value, whatever
\* the counter was and whatever other liquidity fields the payload carries;
\* liquidityDelta counts only when neither is there.
C9_ShapePriority ==
    \A k \in 1..Len(trace) :
        LET args == df[k].event_arguments IN
        /\ Has(args, "liquidityAfter") => trace[k].after = args.liquidityAfter
        /\ (~Has(args, "liquidityAfter") /\ Has(args, "liquidity"))
                => trace[k].after = args.liquidity
        /\ (/\ ~Has(args, "liquidityAfter")
            /\ ~Has(args, "liquidity")
            /\ Has(args, "liquidityDelta"))
                => trace[k].after \in {CounterBefore(k) + args.liquidityDelta,
                                       CounterBefore(k) - args.liquidityDelta}

\* C9's case: the second event of a block carries all three fields with
\* liquidityAfter unlike liquidity, the counter before it is yet another
\* value, and the event has been replayed.
C9_Witness ==
    /\ Len(trace) = 2
    /\ LiquidityKeys \subseteq DOMAIN df[2].event_arguments
    /\ df[2].event_arguments.liquidityAfter # df[2].event_arguments.liquidity
    /\ trace[2].before # df[2].event_arguments.liquidityAfter
    /\ trace[2].after = df[2].event_arguments.liquidityAfter

\* C10: the first event starts from the prior block's liquidity, every later
\* event (and the check of a closing event) from what the event before it
\* produced, and the summary reports the prior block's liquidity as the start
\* and the last event's liquidity as the end.
C10_CounterChain ==
    /\ \A k \in 1..Len(trace) : trace[k].before = CounterBefore(k)
    /\ \A k \in 1..Len(checks) :
            /\ checks[k].row <= Len(trace) + 1
            /\ checks[k].liquidity_before = CounterBefore(checks[k].row)
    /\ \A k \in 1..Len(log) :
            IsSummary(log[k].msg) =>
                /\ Len(trace) = Len(df)
                /\ log[k].msg.liquidity_start = prior_liquidity
                /\ log[k].msg.liquidity_end = CounterBefore(Len(trace) + 1)

\* C10's case: a block of two events that both move the counter, the second
\* a closing event, replayed to its summary.
C10_Witness ==
    /\ pc = "done"
    /\ Len(trace) = 2
    /\ trace[1].after # prior_liquidity
    /\ trace[2].after # trace[1].after
    /\ Len(checks) = 1
    /\ checks[1].row = 2

\* The calls of handle_position_close made for row k.
ChecksOf(k) == {c \in 1..Len(checks) : checks[c].row = k}
\* The events of type name among the first n rows of df.
CountOf(name, n) == Cardinality({k \in 1..n : df[k].event_name = name})

\* C11: every replayed Settle or Liquidate, and no other event, has exactly
\* one call of handle_position_close, made while the counter still holds its
\* value before the event and passing that value as liquidity_before and the
\* event's new value as liquidity_after; whatever the call's outcome, it
\* leaves the counter and the counts as they were: a call that raised left
\* both as the rows before it made them, and a call that returned is followed
\* by the event's own update only.
C11_CloseCallFrame ==
    /\ \A k \in 1..Len(trace) :
        /\ df[k].event_name \in {"Settle", "Liquidate"}
                => Cardinality(ChecksOf(k)) = 1
        /\ df[k].event_name \notin {"Settle", "Liquidate"} => ChecksOf(k) = {}
    /\ \A c \in 1..Len(checks) :
        LET k == checks[c].row IN
        /\ k \in 1..Len(df)
        /\ df[k].event_name \in {"Settle", "Liquidate"}
        /\ checks[c].event_name = df[k].event_name
        /\ checks[c].liquidity_before = CounterBefore(k)
        /\ Has(df[k].event_arguments, "liquidityAfter")
                => checks[c].liquidity_after = df[k].event_arguments.liquidityAfter
        /\ k <= Len(trace) =>
                /\ trace[k].before = checks[c].liquidity_before
                /\ trace[k].after = checks[c].liquidity_after
        /\ k > Len(trace) =>
                /\ k = idx + 1
                /\ liquidity = checks[c].liquidity_before
    /\ \A n \in EventNames : counts[n] = CountOf(n, idx)
            \/ (error = "UnboundLocalError" /\ counts[n] = CountOf(n, idx + 1))

\* C11's case: a Settle that passed and a Liquidate that breached have both
\* been replayed to the summary, each moving the counter.
C11_Witness ==
    /\ pc = "done"
    /\ Len(checks) = 2
    /\ checks[1].event_name = "Settle"
    /\ checks[1].outcome = "success"
    /\ checks[2].event_name = "Liquidate"
    /\ checks[2].outcome = "error"
    /\ trace[1].after # trace[1].before
    /\ trace[2].after # trace[2].before
    /\ counts["Settle"] = 1
    /\ counts["Liquidate"] = 1

\* The logs of type name the chain holds for the block.
InBlock(name) ==
    Cardinality({k \in 1..Len(block_logs) : block_logs[k].event_name = name})
\* The sum of the six counts of cnt.
RECURSIVE SumCounts(_, _)
SumCounts(cnt, k) ==
    IF k = 0 THEN 0 ELSE cnt[EventTypes[k]] + SumCounts(cnt, k - 1)
\* The figures of a summary message agree with the block.
SummaryAgrees(m) ==
    /\ m.opened = InBlock("Open")
    /\ m.closed = InBlock("Settle") + InBlock("Liquidate")
    /\ m.swaps = InBlock("Swap")
    /\ m.adds = InBlock("Mint")
    /\ m.removes = InBlock("Burn")
    /\ m.liquidity_delta = m.liquidity_end - m.liquidity_start
    /\ m.block_number = block

\* C12: in every summary of the block, logged, sent or returned, opened is
\* the number of Open events of the block, closed the number of its Settle
\* plus Liquidate events, each of the six counts the number of events of its
\* type (so the counts add up to the number of events), and the liquidity
\* delta the end liquidity minus the start liquidity.
C12_SummaryCounts ==
    /\ \A k \in 1..Len(log) : IsSummary(log[k].msg) => SummaryAgrees(log[k].msg)
    /\ \A k \in 1..Len(sent) : IsSummary(sent[k].msg) => SummaryAgrees(sent[k].msg)
    /\ returned # <<>> =>
        /\ \A n \in EventNames : returned[1][n] = InBlock(n)
        /\ SumCounts(returned[1], Len(EventTypes)) = Len(block_logs)

\* C12's case: the summary of a block with a Settle and a Liquidate that
\* moved the pool's liquidity has been sent and the counts returned.
C12_Witness ==
    /\ returned # <<>>
    /\ SummarySent
    /\ InBlock("Settle") = 1
    /\ InBlock("Liquidate") = 1
    /\ sent[Len(sent)].msg.closed = 2
    /\ sent[Len(sent)].msg.liquidity_delta # 0

\* C13: without a bot, attempt_send_message never hands a message to the
\* transport and never raises, whatever the message, its level and the
\* logger's level; the block goes on as after a filtered message: the row of
\* every check whose message was logged is finished, and a logged summary is
\* followed by the return of the counts.
C13_NoBotNoSend ==
    ~bot =>
        /\ sent = <<>>
        /\ error # "send_message"
        /\ \A c \in 1..Len(checks) :
                checks[c].outcome # "raised" => checks[c].row <= idx
        /\ SummaryLogged => (pc = "done" /\ returned # <<>>)

\* C13's case: without a bot and under a logger at DEBUG, which filters
\* nothing by level, a breach and the summary were logged and the counts
\* returned.
C13_Witness ==
    /\ ~bot
    /\ logger_level = LogLevel_DEBUG
    /\ pc = "done"
    /\ Len(log) = 2
    /\ log[1].method = "error"
    /\ IsSummary(log[2].msg)
    /\ sent = <<>>

\* The messages handle_position_close has logged, in the order of its calls.
CloseLogs == SelectSeq(log, LAMBDA e : ~IsSummary(e.msg))
\* A check's arguments make it a breach (lines 83, 86 and 92).
IsBreach(c) == c.liquidity_after - c.liquidity_before < c.liquidityLocked

\* C14: every closing event that was checked is logged, a breach with the
\* error method and the urgent marker and a pass with the success method and
\* the success marker, and what is sent for it goes at ERROR for a breach and
\* at SUCCESS for a pass: marker, method and level never disagree.
C14_SeverityMapping ==
    /\ Len(CloseLogs) = Len(checks)
    /\ \A c \in 1..Len(checks) :
        c <= Len(CloseLogs) =>
            /\ CloseLogs[c].method = IF IsBreach(checks[c]) THEN "error" ELSE "success"
            /\ CloseLogs[c].msg.marker = IF IsBreach(checks[c]) THEN "urgent" ELSE "success"
    /\ \A k \in 1..Len(sent) :
        ~IsSummary(sent[k].msg) =>
            sent[k].level = IF sent[k].msg.marker = "urgent"
                            THEN LogLevel_ERROR ELSE LogLevel_SUCCESS

\* The log of the block that was executed k-th.
Executed(k) == CHOOSE e \in {block_logs[j] : j \in 1..Len(block_logs)} :
                    e.log_index = k - 1

\* C15: whatever order the queries returned the logs in, the frame holds
\* every log of the block once, in ascending (transaction_index, log_index)
\* order, and the replay follows it: the k-th finished row took the counter
\* to what the k-th executed log says (a log with none of the three fields
\* says what the log before it said), the checks were called in that order
\* and the summary reports the counter after the last executed log.  Nothing
\* of this depends on the order of retrieval.
C15_ReplayInExecutionOrder ==
    pc \in {"replay", "done"} =>
        /\ Len(df) = Len(block_logs)
        /\ \A k \in 1..Len(df) : df[k] = Executed(k)
        /\ \A j, k \in 1..Len(df) : j < k => RowBefore(df[j], df[k])
        /\ \A k \in 1..Len(trace) :
            trace[k].after =
                LiquidityAfterOf(Executed(k), CounterBefore(k),
                                 IF k = 1 THEN Unbound
                                 ELSE Bound(CounterBefore(k)))[1]
        /\ \A c \in 1..Len(checks) :
            /\ checks[c].event_name = Executed(checks[c].row).event_name
            /\ \A b \in 1..Len(checks) : b < c => checks[b].row < checks[c].row
        /\ \A k \in 1..Len(log) :
            IsSummary(log[k].msg) =>
                log[k].msg.liquidity_end = CounterBefore(Len(block_logs) + 1)

\* C15's case: two logs of one type came back last-executed first, two
\* closing events among them or not, and the block was replayed to its
\* summary with the counter ending where the last executed log left it.
C15_Witness ==
    /\ pc = "done"
    /\ Len(block_logs) = 2
    /\ block_logs[1].event_name = block_logs[2].event_name
    /\ block_logs[1].log_index > block_logs[2].log_index
    /\ trace[1].after # trace[2].after
    /\ trace[2].after = block_logs[1].event_arguments.liquidityAfter
    /\ Len(checks) = 2

\* Sequences s and t agree wherever both have an element.
Agree(s, t) ==
    \A k \in 1..Len(s) : k <= Len(t) => s[k] = t[k]
\* The exceptions the replay raises by itself, the chain and the transport
\* answering.
OwnErrors == {"UnboundLocalError", "ZeroDivisionError"}

AloneBefore(f, k) == IF k = 1 THEN f.prior_liquidity ELSE f.trace[k - 1].after
\* The counts of the first n rows of frame f.
AloneCounts(f, n) ==
    [name \in EventNames |->
        Cardinality({k \in 1..n : f.df[k].event_name = name})]
\* What frame f holds is what exec_block run alone on f's block, start
\* liquidity and position answers computes.
RunsAsAlone(f) ==
    /\ f.df = sort_values(Concat(1, f.block_logs))
    /\ f.pc \in {"replay", "done"} => f.liquidity_before = f.prior_liquidity
    /\ f.pc = "replay" =>
        /\ f.idx = Len(f.trace)
        /\ f.liquidity = AloneBefore(f, f.idx + 1)
        /\ f.counts = AloneCounts(f, f.idx)
    /\ \A k \in 1..Len(f.trace) :
        /\ f.trace[k].before = AloneBefore(f, k)
        /\ f.trace[k].after =
                LiquidityAfterOf(f.df[k], AloneBefore(f, k),
                                 IF k = 1 THEN Unbound
                                 ELSE Bound(AloneBefore(f, k)))[1]
    /\ \A c \in 1..Len(f.checks) :
        LET ch == f.checks[c]
            args == f.df[ch.row].event_arguments
            locked == f.positions[<<get_position_key(args.owner, args.id),
                                    f.block - 1>>]
        IN  /\ ch.liquidity_before = AloneBefore(f, ch.row)
            /\ ch.liquidityLocked = locked
            /\ ch.outcome =
                    IF locked = 0 THEN "raised"
                    ELSE IF ch.liquidity_after - ch.liquidity_before < locked
                    THEN "error" ELSE "success"
    /\ \A k \in 1..Len(f.log) :
        /\ f.log[k].msg.block_number = f.block
        /\ IsSummary(f.log[k].msg) =>
                f.log[k].msg = SummaryMsg(f.block, f.prior_liquidity,
                                          AloneBefore(f, Len(f.df) + 1),
                                          AloneCounts(f, Len(f.df)))
    /\ \A k \in 1..Len(f.sent) :
            \E j \in 1..Len(f.log) : f.sent[k].msg = f.log[j].msg
    /\ f.returned # <<>> => f.returned[1] = AloneCounts(f, Len(f.df))

\* C17: two invocations of exec_block for different blocks share nothing they
\* write: however their steps interleave and whichever ends first, each one's
\* start liquidity is the prior-block liquidity of its own block, and its
\* counters, checks, messages and counts are those of a run of its own block
\* alone; the worker's block_count is never touched.
C17_InvocationsIndependent ==
    /\ RunsAsAlone(Frame)
    /\ \A k \in 1..Len(parked) : RunsAsAlone(parked[k])
    /\ block_count = 0

\* C17's case: the invocations for the two blocks have both returned, the
\* one for the earlier block resumed last after a block of two events; the
\* two blocks differ in their start liquidity and in where they end.
C17_Witness ==
    /\ parked # <<>>
    /\ block = BlockNumber
    /\ pc = "done"
    /\ parked[1].pc = "done"
    /\ Len(trace) = 2
    /\ Len(parked[1].trace) >= 1
    /\ prior_liquidity # parked[1].prior_liquidity
    /\ liquidity # parked[1].liquidity
    /\ liquidity_before = prior_liquidity
    /\ parked[1].liquidity_before = parked[1].prior_liquidity

\* The key of the position the closing event of row k is about.
KeyOfRow(k) ==
    get_position_key(df[k].event_arguments.owner, df[k].event_arguments.id)

\* C18: the liquidityLocked every check of a Settle or Liquidate of block N
\* compares with is the one of the position keyed by the event's (owner, id)
\* at the end of block N - 1, wherever the event stands in the block and
\* whatever events of the block came before it: two checks of one position in
\* a block compare with the same value.
C18_LockedAsOfPriorBlock ==
    /\ \A c \in 1..Len(checks) :
        LET query == <<KeyOfRow(checks[c].row), block - 1>> IN
        /\ query \in DOMAIN positions
        /\ checks[c].liquidityLocked = positions[query]
    /\ \A b, c \in 1..Len(checks) :
        KeyOfRow(checks[b].row) = KeyOfRow(checks[c].row)
            => checks[b].liquidityLocked = checks[c].liquidityLocked
    /\ \A q \in DOMAIN positions : q[2] = block - 1

\* C18's case: an Open moved the pool's liquidity and a Settle in the second
\* place of the same block was checked against the position at the end of the
\* prior block.
C18_Witness ==
    /\ Len(trace) = 2
    /\ df[1].event_name = "Open"
    /\ trace[1].after # trace[1].before
    /\ df[2].event_name = "Settle"
    /\ Len(checks) = 1
    /\ checks[1].row = 2
    /\ checks[1].liquidityLocked = positions[<<KeyOfRow(2), block - 1>>]
    /\ checks[1].liquidityLocked > 0

\* C19: the transport gets the messages of a block one at a time; an alert
\* goes out in the step that replays its closing event, after the alerts of
\* the rows before it and before the next row is replayed; the summary goes
\* out once the loop has finished every row and every closing row has been
\* checked, and nothing goes out after it, so it goes out at most once.
C19_AlertsInEventOrder ==
    [][sent' # sent =>
        /\ Len(sent') = Len(sent) + 1
        /\ \A k \in 1..Len(sent) : sent'[k] = sent[k]
        /\ ~SummarySent
        /\ LET m == sent'[Len(sent')] IN
            IF IsSummary(m.msg)
            THEN /\ idx = Len(df)
                 /\ Len(trace) = Len(df)
                 /\ \A k \in 1..Len(df) :
                        df[k].event_name \in {"Settle", "Liquidate"}
                            => ChecksOf(k) # {}
            ELSE /\ idx < Len(df)
                 /\ Len(trace) = idx
                 /\ df[idx + 1].event_name \in {"Settle", "Liquidate"}
                 /\ m.msg.event_name = df[idx + 1].event_name
                 /\ m.msg.position_id = df[idx + 1].event_arguments.id
                 /\ idx' = idx + 1
                 /\ Len(checks') = Len(checks) + 1
                 /\ checks'[Len(checks')].row = idx + 1
      ]_vars

\* C19's case: the alert of a Settle, then the alert of the Liquidate after
\* it, then the summary of the block have gone out.
C19_Witness ==
    /\ pc = "done"
    /\ Len(sent) = 3
    /\ sent[1].msg.marker # "block"
    /\ sent[1].msg.event_name = "Settle"
    /\ sent[2].msg.marker # "block"
    /\ sent[2].msg.event_name = "Liquidate"
    /\ IsSummary(sent[3].msg)
    /\ df[1].event_name = "Settle"
    /\ df[2].event_name = "Liquidate"

\* A message with marker mk has gone out.
SentMarked(mk) == \E k \in 1..Len(sent) : sent[k].msg.marker = mk
\* The logged message j went out, or the transport failed on it.
WentOut(j) ==
    \/ \E k \in 1..Len(sent) : sent[k].msg = log[j].msg
    \/ j = Len(log) /\ error = "send_message"

====
